---- MODULE Spec2Model ----
(***************************************************************************)
(* countpairs_nopbc (sinha_pairs/source/countpairs_nopbc.c), OpenMP build: *)
(* one call of the pair counter as a state machine.                        *)
(*                                                                         *)
(* Coordinates and bin edges are integers (multiples of a length unit      *)
(* that doubles represent exactly), so squares and comparisons are exact.  *)
(* A point cloud is a sequence of runs <<x, y, z, m>>: m consecutive       *)
(* identical points of the input arrays.  The body of the pair loops is    *)
(* the same for every point of a run, so one pass over a pair of runs      *)
(* stands for m1*m2 identical iterations, each npairs[kbin]++ (mod 2^32).  *)
(***************************************************************************)
EXTENDS Integers, Sequences, FiniteSets, TLC

VARIABLES
    D1, D2,          \* the two point clouds (X1,Y1,Z1 / X2,Y2,Z2), as runs
    bbox,            \* xmin, xmax, ymin, ymax, zmin, zmax
    autocorr, rpmax, numthreads, nrpbin, rupp,
    use_avx,         \* the build: TRUE when compiled with USE_AVX
    paircounts_in,   \* what the caller's output array held before the call
    paircounts,      \* (*paircounts)[0..nrpbin-1]
    pc,              \* the master's position in the function
    bin_refine_factor, nmesh, lattices, lattice2, rupp_sqr,
    all_npairs,      \* numthreads x nrpbin matrix (matrix_calloc)
    nteam,           \* threads of the parallel region's team
    tpc,             \* each team thread's position
    npairs,          \* each thread's private npairs[nrpbin]
    next_icell,      \* the dynamic schedule's next unassigned iteration
    visits,          \* per outer cell, the threads that ran its iteration
    row_writers,     \* per row of all_npairs, the threads that wrote it
    npairs_red,      \* the master's npairs[nrpbin] after the region
    nfree            \* per heap object allocated in the call, its free() count

vars == <<D1, D2, bbox, autocorr, rpmax, numthreads, nrpbin, rupp, use_avx,
          paircounts_in, paircounts, pc, bin_refine_factor, nmesh, lattices,
          lattice2, rupp_sqr, all_npairs, nteam, tpc, npairs, next_icell,
          visits, row_writers, npairs_red, nfree>>

inputs == <<D1, D2, bbox, autocorr, rpmax, numthreads, nrpbin, rupp, use_avx,
            paircounts_in>>

----------------------------------------------------------------------------
\* Bounds of the model.
MaxThreads == 2
MaxND == 3
MaxNDCross == MaxND - 1
MaxMult == 2
MaxNDAVX == 6
MaxMultAVX == 3

\* Program constants.
BLOCK_SIZE == 16
NVEC == 4
INT_MAX == 2147483647

----------------------------------------------------------------------------
\* Arithmetic of the C types.  TLC's integers are 32-bit signed, so
\* an unsigned int is held as the int with the same 32 bits: a value u below
\* 2^31 is held as u, a value from 2^31 on as u - 2^32.

\* unsigned int addition, modulo 2^32, on the 32 bits.
UAdd(a, b) ==
    IF a >= 0 /\ b >= 0
    THEN IF a <= INT_MAX - b THEN a + b
         ELSE (a - INT_MAX - 1) + (b - INT_MAX - 1)
    ELSE IF a < 0 /\ b < 0
    THEN IF a >= (-INT_MAX - 1) - b THEN a + b
         ELSE (a + INT_MAX + 1) + (b + INT_MAX + 1)
    ELSE a + b

\* n successive additions of a (n identical npairs[kbin]++ when a = 1).
RECURSIVE UTimes(_, _)
UTimes(a, n) ==
    IF n = 0 THEN 0
    ELSE LET h == UTimes(a, n \div 2)
             d == UAdd(h, h)
         IN IF n % 2 = 1 THEN UAdd(d, a) ELSE d

\* (*paircounts)[i] = npairs[i]: unsigned int stored into int keeps the 32
\* bits; the int's value is the held number itself (negative from 2^31 on).
ToInt(u) == u

\* Natural numbers past 2^31 as <<hi, lo>> = hi * 2^16 + lo, for the values
\* the counters stand for.
Wide(n) == <<n \div 65536, n % 65536>>
WAdd(a, b) == <<a[1] + b[1] + ((a[2] + b[2]) \div 65536), (a[2] + b[2]) % 65536>>
\* m1 * m2 for m1, m2 <= 2^16
WMul(m1, m2) ==
    LET h == (m1 \div 256) * m2
        l == (m1 % 256) * m2
    IN WAdd(<<h \div 256, (h % 256) * 256>>, Wide(l))
\* The value of an unsigned int from its 32 bits.
UVal(u) == IF u >= 0 THEN Wide(u) ELSE <<65536 + (u \div 65536), u % 65536>>

Zero(n) == [k \in 0..(n - 1) |-> 0]

\* A C array from a tuple: index 0 first.
Arr(s) == [i \in 0..(Len(s) - 1) |-> s[i + 1]]

Min(a, b) == IF a < b THEN a ELSE b

\* TRUE, once v is computed.  The loops below hand the counters from one
\* iteration to the next; each tests Computed(np) on entry, which makes the
\* evaluator finish an iteration before it starts the next (it would otherwise
\* nest them).  The test never fails.
Computed(v) == v = v

RECURSIVE SumFn(_, _)
SumFn(f, S) ==
    IF S = {} THEN 0
    ELSE LET x == CHOOSE y \in S : TRUE IN f[x] + SumFn(f, S \ {x})

Dist2(p, q) ==
    LET dx == p[1] - q[1]
        dy == p[2] - q[2]
        dz == p[3] - q[3]
    IN (dx * dx + dy * dy + dz * dz)

RECURSIVE NPoints(_)
NPoints(D) == IF D = <<>> THEN 0 ELSE Head(D)[4] + NPoints(Tail(D))

----------------------------------------------------------------------------
\* gridlink_nopbc: the lattice over the bounding box (gridlink.c is not part
\* of the sources; modelled from the specification of GridIndex.build).

\* nx = max(1, floor((xmax - xmin) * binRefineFactor / rmax))
NMesh(lo, hi, rmax, bf) ==
    LET n == ((hi - lo) * bf) \div rmax IN IF n < 1 THEN 1 ELSE n

\* ix = clamp(floor((X[i] - xmin) / wx), 0, nx - 1), wx = (xmax - xmin) / nx
CellCoord(v, lo, hi, n) ==
    LET i == ((v - lo) * n) \div (hi - lo)
    IN IF i < 0 THEN 0 ELSE IF i > n - 1 THEN n - 1 ELSE i

gridlink_nopbc(D, b, rmax, bf) ==
    LET nx == NMesh(b.xmin, b.xmax, rmax, bf)
        ny == NMesh(b.ymin, b.ymax, rmax, bf)
        nz == NMesh(b.zmin, b.zmax, rmax, bf)
        idx(p) == CellCoord(p[1], b.xmin, b.xmax, nx) * ny * nz
                  + CellCoord(p[2], b.ymin, b.ymax, ny) * nz
                  + CellCoord(p[3], b.zmin, b.zmax, nz)
        InCell(c) == SelectSeq(D, LAMBDA p : idx(p) = c)
    IN [x |-> nx, y |-> ny, z |-> nz,
        cells |-> [c \in 0..(nx * ny * nz - 1) |-> InCell(c)]]

\* The heap objects one lattice holds: the cellarray and, per cell, x, y, z.
LatticeObjects(id, ncells) ==
    {<<"lattice", id>>}
    \cup {<<"cell", id, c, a>> : c \in 0..(ncells - 1), a \in {"x", "y", "z"}}

----------------------------------------------------------------------------
\* The pair kernel, scalar form (lines 179-210).

sqr_rpmax == rupp_sqr[nrpbin - 1]
sqr_rpmin == rupp_sqr[0]

\* A scan whose comparison is strict: its bins would be open below.
RECURSIVE ScanBins_strict(_, _, _, _)
ScanBins_strict(np, r2, kbin, w) ==
    IF kbin < 1 THEN np
    ELSE IF r2 > rupp_sqr[kbin - 1]
         THEN [np EXCEPT ![kbin] = UAdd(@, w)]
         ELSE ScanBins_strict(np, r2, kbin - 1, w)

\* lines 200-208: the descending scan; the first kbin with
\* r2 >= rupp_sqr[kbin-1] is incremented (w times) and the scan breaks.
RECURSIVE ScanBins(_, _, _, _)
ScanBins(np, r2, kbin, w) ==
    IF kbin < 1 THEN np
    ELSE IF r2 >= rupp_sqr[kbin - 1]
         THEN [np EXCEPT ![kbin] = UAdd(@, w)]
         ELSE ScanBins(np, r2, kbin - 1, w)

\* A range test that lets r2 = sqr_rpmax through: the top bin would be closed
\* above.
PairUpdate_closedtop(np, p, q, w) ==
    IF Dist2(p, q) > sqr_rpmax \/ Dist2(p, q) < sqr_rpmin
    THEN np
    ELSE ScanBins(np, Dist2(p, q), nrpbin - 1, w)

\* lines 190-208 (and 310-329): one (x1pos, x2[j]) pair, w identical times.
PairUpdate(np, p, q, w) ==
    LET r2 == Dist2(p, q)
    IN IF r2 >= sqr_rpmax \/ r2 < sqr_rpmin
       THEN np
       ELSE ScanBins(np, r2, nrpbin - 1, w)

\* lines 189-209: the jj loop over one block starting at j.
RECURSIVE BlockLoop(_, _, _, _, _)
BlockLoop(np, p, second, j, jj) ==
    IF ~Computed(np) \/ jj >= Min(Len(second) - j, BLOCK_SIZE) THEN np
    ELSE BlockLoop(PairUpdate(np, p, second[j + jj + 1],
                              UTimes(p[4], second[j + jj + 1][4])),
                   p, second, j, jj + 1)

\* lines 185-210: the j loop, in steps of BLOCK_SIZE.
RECURSIVE ScalarJLoop(_, _, _, _)
ScalarJLoop(np, p, second, j) ==
    IF ~Computed(np) \/ j >= Len(second) THEN np
    ELSE ScalarJLoop(BlockLoop(np, p, second, j, 0), p, second,
                     j + BLOCK_SIZE)

----------------------------------------------------------------------------
\* The pair kernel, AVX form (lines 228-330).  Vectors are functions of the
\* lane; a mask is a BOOLEAN per lane.

Lanes == 0..(NVEC - 1)

\* AVX_TEST_COMPARISON(mask) == 0
NoLane(mask) == \A l \in Lanes : ~mask[l]

\* The points of a cell one by one: NVEC consecutive ones fill a vector.
RECURSIVE Expand(_)
Expand(cell) ==
    IF cell = <<>> THEN <<>>
    ELSE LET p == Head(cell)
         IN [i \in 1..p[4] |-> <<p[1], p[2], p[3], 1>>] \o Expand(Tail(cell))

\* A scan that forgets the lanes already binned: m_bin_mask is m1 alone.
RECURSIVE AVXScan_nomask(_, _, _, _)
AVXScan_nomask(np, r2, m_mask_left, kbin) ==
    IF kbin < 1 THEN np
    ELSE LET m1 == [l \in Lanes |-> r2[l] >= rupp_sqr[kbin - 1]]
             left == [l \in Lanes |-> r2[l] < rupp_sqr[kbin - 1]]
             bits == Cardinality({l \in Lanes : m1[l]})
         IN IF NoLane(left) THEN [np EXCEPT ![kbin] = UAdd(@, bits)]
            ELSE AVXScan_nomask([np EXCEPT ![kbin] = UAdd(@, bits)], r2, left,
                                kbin - 1)

\* lines 273-286: the masked descending scan with early exit.
RECURSIVE AVXScan(_, _, _, _)
AVXScan(np, r2, m_mask_left, kbin) ==
    IF kbin < 1 THEN np
    ELSE LET m1 == [l \in Lanes |-> r2[l] >= rupp_sqr[kbin - 1]]
             m_bin_mask == [l \in Lanes |-> m1[l] /\ m_mask_left[l]]
             left == [l \in Lanes |-> r2[l] < rupp_sqr[kbin - 1]]
             bits == Cardinality({l \in Lanes : m_bin_mask[l]})
             np2 == [np EXCEPT ![kbin] = UAdd(@, bits)]
         IN IF NoLane(left) THEN np2 ELSE AVXScan(np2, r2, left, kbin - 1)

\* lines 234-290: one vector of NVEC points of the second cell, from j.
AVXGroup(np, p, pts, j) ==
    LET r2 == [l \in Lanes |-> Dist2(p, pts[j + l + 1])]
        left0 == [l \in Lanes |-> r2[l] < sqr_rpmax]
        m_mask == [l \in Lanes |-> left0[l] /\ r2[l] >= sqr_rpmin]
        blend == [l \in Lanes |-> IF m_mask[l] THEN r2[l] ELSE sqr_rpmax]
        left == [l \in Lanes |-> blend[l] < sqr_rpmax]
    IN IF NoLane(left0) THEN np
       ELSE IF NoLane(m_mask) THEN np
       ELSE AVXScan(np, blend, left, nrpbin - 1)

\* lines 233-306: the vector loop; returns <<npairs, j>>.
RECURSIVE AVXVectorLoop(_, _, _, _)
AVXVectorLoop(np, p, pts, j) ==
    IF Computed(np) /\ j <= Len(pts) - NVEC
    THEN AVXVectorLoop(AVXGroup(np, p, pts, j), p, pts, j + NVEC)
    ELSE <<np, j>>

\* lines 309-330: the remainder loop.
RECURSIVE AVXRemainder(_, _, _, _)
AVXRemainder(np, p, pts, j) ==
    IF ~Computed(np) \/ j >= Len(pts) THEN np
    ELSE AVXRemainder(PairUpdate(np, p, pts[j + 1], 1), p, pts, j + 1)

\* lines 228-330 for one point of the first cell, from zeroed counters.
AVXPoint(p, second) ==
    LET pts == Expand(second)
        v == AVXVectorLoop(Zero(nrpbin), p, pts, 0)
    IN AVXRemainder(v[1], p, pts, v[2])

\* The i-body runs p[4] identical times for a run of the first cell.
AVXJLoop(np, p, second) ==
    LET one == AVXPoint(p, second)
    IN [k \in 0..(nrpbin - 1) |-> UAdd(np[k], UTimes(one[k], p[4]))]

----------------------------------------------------------------------------
\* lines 179-334: the i loop over the first cell, with the build's kernel.
RECURSIVE ILoop(_, _, _, _, _)
ILoop(np, first, second, i, avx) ==
    IF ~Computed(np) \/ i >= Len(first) THEN np
    ELSE ILoop(IF avx THEN AVXJLoop(np, first[i + 1], second)
               ELSE ScalarJLoop(np, first[i + 1], second, 0),
               first, second, i + 1, avx)

KernelScalar(np, first, second) == ILoop(np, first, second, 0, FALSE)
KernelAVX(np, first, second) == ILoop(np, first, second, 0, TRUE)

----------------------------------------------------------------------------
\* The loop over the outer cells (lines 140-347).  A grid G holds what the
\* loop reads: bf (bin_refine_factor), nx, ny, nz (nmesh_x, nmesh_y,
\* nmesh_z), first (lattice1's cells) and second (lattice2's cells).

Grid(bf, nm, cells1, cells2) ==
    [bf |-> bf, nx |-> nm.x, ny |-> nm.y, nz |-> nm.z,
     first |-> cells1, second |-> cells2]

\* lines 142-144: the cell's lattice coordinates from its linear index.
Iz(G, icell) == icell % G.nz
Ix(G, icell) == icell \div (G.nz * G.ny)
Iy(G, icell) == (icell - Iz(G, icell) - Ix(G, icell) * G.nz * G.ny) \div G.nz

\* line 145: assert(iz + nmesh_z*iy + nmesh_z*nmesh_y*ix == icell)
IndexReconstructed(G, icell) ==
    Iz(G, icell) + G.nz * Iy(G, icell) + G.nz * G.ny * Ix(G, icell) = icell

\* Offsets that start one late: the lowest neighbour on each axis is skipped.
OffsetSeq_short(bf) == [i \in 1..(2 * bf) |-> i - bf]

\* lines 146, 153, 160: the offsets iix, iiy, iiz run over, in order.
OffsetSeq(bf) == [i \in 1..(2 * bf + 1) |-> i - 1 - bf]

\* line 167
Index2(G, iiix, iiiy, iiiz) == iiix * G.ny * G.nz + iiiy * G.nz + iiiz

\* lines 160-343: the iiz loop, from the n-th offset; an offset outside the
\* lattice is skipped.
RECURSIVE ZLoop(_, _, _, _, _, _, _)
ZLoop(np, G, icell, iiix, iiiy, n, avx) ==
    IF ~Computed(np) \/ n > Len(OffsetSeq(G.bf)) THEN np
    ELSE LET iiiz == OffsetSeq(G.bf)[n] + Iz(G, icell)
         IN ZLoop(IF iiiz < 0 \/ iiiz >= G.nz THEN np
                  ELSE ILoop(np, G.first[icell],
                             G.second[Index2(G, iiix, iiiy, iiiz)], 0, avx),
                  G, icell, iiix, iiiy, n + 1, avx)

\* lines 153-344: the iiy loop.
RECURSIVE YLoop(_, _, _, _, _, _)
YLoop(np, G, icell, iiix, n, avx) ==
    IF ~Computed(np) \/ n > Len(OffsetSeq(G.bf)) THEN np
    ELSE LET iiiy == OffsetSeq(G.bf)[n] + Iy(G, icell)
         IN YLoop(IF iiiy < 0 \/ iiiy >= G.ny THEN np
                  ELSE ZLoop(np, G, icell, iiix, iiiy, 1, avx),
                  G, icell, iiix, n + 1, avx)

\* lines 146-345: the iix loop.
RECURSIVE XLoop(_, _, _, _, _)
XLoop(np, G, icell, n, avx) ==
    IF ~Computed(np) \/ n > Len(OffsetSeq(G.bf)) THEN np
    ELSE LET iiix == OffsetSeq(G.bf)[n] + Ix(G, icell)
         IN XLoop(IF iiix < 0 \/ iiix >= G.nx THEN np
                  ELSE YLoop(np, G, icell, iiix, 1, avx),
                  G, icell, n + 1, avx)

\* One iteration of the icell loop (lines 141-346), on the running thread's
\* npairs.
CellIteration(np, G, icell, avx) == XLoop(np, G, icell, 1, avx)

\* The grid of the call in progress.
TheGrid == Grid(bin_refine_factor, nmesh, lattices[1], lattices[lattice2])

----------------------------------------------------------------------------
\* The steps of the call.

totncells == nmesh.x * nmesh.y * nmesh.z

\* lines 40-59
BinRefineFactor(nthreads) == IF nthreads > 1 THEN 1 ELSE 2

\* lines 40-121: refine factor, the lattices, the asserts on the second
\* lattice's shape, the per-thread matrix, the squared edges.
Build ==
    /\ pc = "build"
    /\ LET bf == BinRefineFactor(numthreads)
           g1 == gridlink_nopbc(D1, bbox, rpmax, bf)
           g2 == gridlink_nopbc(D2, bbox, rpmax, bf)
           n1 == g1.x * g1.y * g1.z
           n2 == g2.x * g2.y * g2.z
           same == g1.x = g2.x /\ g1.y = g2.y /\ g1.z = g2.z
       IN /\ bin_refine_factor' = bf
          /\ nmesh' = [x |-> g1.x, y |-> g1.y, z |-> g1.z]
          /\ IF autocorr = 0
             THEN /\ lattices' = [id \in {1, 2} |->
                                     IF id = 1 THEN g1.cells ELSE g2.cells]
                  /\ lattice2' = 2
                  /\ IF same
                     THEN /\ pc' = "parallel"
                          /\ nfree' = [o \in LatticeObjects(1, n1)
                                              \cup LatticeObjects(2, n2)
                                              \cup {<<"all_npairs">>} |-> 0]
                     ELSE /\ pc' = "aborted"
                          /\ nfree' = [o \in LatticeObjects(1, n1)
                                              \cup LatticeObjects(2, n2) |-> 0]
             ELSE /\ lattices' = [id \in {1} |-> g1.cells]
                  /\ lattice2' = 1
                  /\ pc' = "parallel"
                  /\ nfree' = [o \in LatticeObjects(1, n1)
                                      \cup {<<"all_npairs">>} |-> 0]
    /\ all_npairs' = [t \in 0..(numthreads - 1) |-> Zero(nrpbin)]
    /\ row_writers' = [t \in 0..(numthreads - 1) |-> {}]
    /\ rupp_sqr' = [i \in 0..(nrpbin - 1) |-> rupp[i] * rupp[i]]
    /\ UNCHANGED <<inputs, paircounts, nteam, tpc, npairs, next_icell,
                   visits, npairs_red>>

\* lines 124-139: the team enters the parallel region (at most numthreads
\* threads, omp_set_num_threads at line 81); each zeroes its private npairs.
EnterParallel ==
    /\ pc = "parallel"
    /\ \E n \in 1..numthreads :
          /\ nteam' = n
          /\ tpc' = [t \in 0..(n - 1) |-> "loop"]
          /\ npairs' = [t \in 0..(n - 1) |-> Zero(nrpbin)]
    /\ next_icell' = 0
    /\ visits' = [c \in 0..(totncells - 1) |-> <<>>]
    /\ pc' = "count"
    /\ UNCHANGED <<inputs, paircounts, bin_refine_factor, nmesh, lattices,
                   lattice2, rupp_sqr, all_npairs, row_writers, npairs_red,
                   nfree>>

\* lines 138-347: thread tid takes the next iteration of the dynamic
\* schedule and runs it on its private npairs.
ProcessCell(tid) ==
    /\ pc = "count"
    /\ tpc[tid] = "loop"
    /\ next_icell < totncells
    /\ next_icell' = next_icell + 1
    /\ visits' = [visits EXCEPT ![next_icell] = Append(@, tid)]
    /\ IF IndexReconstructed(TheGrid, next_icell)
       THEN /\ npairs' = [npairs EXCEPT
                             ![tid] = CellIteration(@, TheGrid, next_icell,
                                                    use_avx)]
            /\ pc' = pc
       ELSE /\ npairs' = npairs
            /\ pc' = "aborted"
    /\ UNCHANGED <<inputs, paircounts, bin_refine_factor, nmesh, lattices,
                   lattice2, rupp_sqr, all_npairs, nteam, tpc, row_writers,
                   npairs_red, nfree>>

\* Every thread writing the first row.
RowOf_zero(tid) == 0

\* line 350: the row of all_npairs thread tid writes.
RowOf(tid) == tid

\* lines 348-351: past the loop's barrier, the thread copies its npairs.
WriteBack(tid) ==
    /\ pc = "count"
    /\ tpc[tid] = "loop"
    /\ next_icell = totncells
    /\ all_npairs' = [all_npairs EXCEPT ![RowOf(tid)] = npairs[tid]]
    /\ row_writers' = [row_writers EXCEPT ![RowOf(tid)] = @ \cup {tid}]
    /\ tpc' = [tpc EXCEPT ![tid] = "exit"]
    /\ UNCHANGED <<inputs, paircounts, pc, bin_refine_factor, nmesh, lattices,
                   lattice2, rupp_sqr, nteam, npairs, next_icell, visits,
                   npairs_red, nfree>>

\* line 358: the region closes when every thread of the team has left it.
RegionClosed == \A t \in 0..(nteam - 1) : tpc[t] = "exit"

\* A reduction that stops one row early.
RECURSIVE ReduceRows_short(_, _, _)
ReduceRows_short(np, rows, i) ==
    IF ~Computed(np) \/ i >= numthreads - 1 THEN np
    ELSE ReduceRows_short([j \in 0..(nrpbin - 1) |-> UAdd(np[j], rows[i][j])],
                          rows, i + 1)

\* lines 366-370
RECURSIVE ReduceRows(_, _, _)
ReduceRows(np, rows, i) ==
    IF ~Computed(np) \/ i >= numthreads THEN np
    ELSE ReduceRows([j \in 0..(nrpbin - 1) |-> UAdd(np[j], rows[i][j])],
                    rows, i + 1)

\* lines 358-370
Reduce ==
    /\ pc = "count"
    /\ RegionClosed
    /\ npairs_red' = ReduceRows(Zero(nrpbin), all_npairs, 0)
    /\ pc' = "report"
    /\ UNCHANGED <<inputs, paircounts, bin_refine_factor, nmesh, lattices,
                   lattice2, rupp_sqr, all_npairs, nteam, tpc, npairs,
                   next_icell, visits, row_writers, nfree>>

\* lines 394-403: what the loop leaves in the caller's array.
Reported(out, np) ==
    [i \in DOMAIN out |-> IF i >= 1 /\ i < nrpbin THEN ToInt(np[i]) ELSE out[i]]

Report ==
    /\ pc = "report"
    /\ paircounts' = Reported(paircounts, npairs_red)
    /\ pc' = "cleanup"
    /\ UNCHANGED <<inputs, bin_refine_factor, nmesh, lattices, lattice2,
                   rupp_sqr, all_npairs, nteam, tpc, npairs, next_icell,
                   visits, row_writers, npairs_red, nfree>>

\* A cleanup without the autocorr test: lattice2's objects freed always.
FreeCalls_unguarded(o) ==
    (IF o \in LatticeObjects(1, totncells) THEN 1 ELSE 0)
    + (IF o \in LatticeObjects(lattice2, totncells) THEN 1 ELSE 0)
    + (IF o = <<"all_npairs">> THEN 1 ELSE 0)

\* lines 407-430: the number of free() calls the cleanup makes on object o.
FreeCalls(o) ==
    (IF o \in LatticeObjects(1, totncells) THEN 1 ELSE 0)
    + (IF autocorr = 0 /\ o \in LatticeObjects(lattice2, totncells)
       THEN 1 ELSE 0)
    + (IF o = <<"all_npairs">> THEN 1 ELSE 0)

Cleanup ==
    /\ pc = "cleanup"
    /\ nfree' = [o \in DOMAIN nfree |-> nfree[o] + FreeCalls(o)]
    /\ pc' = "done"
    /\ UNCHANGED <<inputs, paircounts, bin_refine_factor, nmesh, lattices,
                   lattice2, rupp_sqr, all_npairs, nteam, tpc, npairs,
                   next_icell, visits, row_writers, npairs_red>>

Next ==
    \/ Build
    \/ EnterParallel
    \/ \E tid \in 0..(nteam - 1) : ProcessCell(tid)
    \/ \E tid \in 0..(nteam - 1) : WriteBack(tid)
    \/ Reduce
    \/ Report
    \/ Cleanup

----------------------------------------------------------------------------
\* The calls the model makes.

Box(x0, x1, y0, y1, z0, z1) ==
    [xmin |-> x0, xmax |-> x1, ymin |-> y0, ymax |-> y1, zmin |-> z0, zmax |-> z1]

\* Boxes with rpmax, candidate positions and edge lists that honour the
\* bin-edge contract (increasing, rupp[K-1] <= rpmax).  The second is
\* scenario S2 in half units, the third scenarios S1 and S3.
Geometries ==
    { [bbox |-> Box(0, 7, 0, 2, 0, 1), rpmax |-> 2,
       sites |-> << <<2, 0, 0>>, <<3, 0, 0>>, <<7, 2, 1>> >>,
       edges |-> { <<0, 1, 2>>, <<1, 2>>, <<0, 1>> },
       fill |-> {7}],
      [bbox |-> Box(-2, 10, 0, 1, 0, 1), rpmax |-> 8,
       sites |-> << <<0, 0, 0>>, <<2, 0, 0>>, <<6, 0, 0>> >>,
       edges |-> { <<0, 3, 5, 8>> },
       fill |-> {7}],
      [bbox |-> Box(-1, 2, -1, 2, 0, 1), rpmax |-> 2,
       sites |-> << <<0, 0, 0>>, <<1, 0, 0>>, <<1, 1, 1>> >>,
       edges |-> { <<0, 2>>, <<0, 1, 2>> },
       fill |-> {0, 7}] }

\* The clouds of at most n points on the sites, at most mmax on one site.
Clouds(sites, n, mmax) ==
    LET S == 1..Len(sites)
        runs(mv) == SelectSeq([i \in S |-> <<sites[i][1], sites[i][2],
                                             sites[i][3], mv[i]>>],
                              LAMBDA r : r[4] > 0)
    IN { runs(mv) : mv \in { f \in [S -> 0..mmax] :
                               SumFn(f, S) \in 1..n } }

\* The state at entry, for a call with the given arguments.
Entry(d1, d2, g, e, ac, nt, avx, garbage) ==
    /\ D1 = d1
    /\ D2 = d2
    /\ bbox = g.bbox
    /\ rpmax = g.rpmax
    /\ autocorr = ac
    /\ numthreads = nt
    /\ nrpbin = Len(e)
    /\ rupp = Arr(e)
    /\ use_avx = avx
    /\ paircounts_in = [i \in 0..(Len(e) - 1) |-> garbage]
    /\ paircounts = [i \in 0..(Len(e) - 1) |-> garbage]
    /\ pc = "build"
    /\ bin_refine_factor = 1
    /\ nmesh = [x |-> 0, y |-> 0, z |-> 0]
    /\ lattices = <<>>
    /\ lattice2 = 0
    /\ rupp_sqr = <<>>
    /\ all_npairs = <<>>
    /\ nteam = 0
    /\ tpc = <<>>
    /\ npairs = <<>>
    /\ next_icell = 0
    /\ visits = <<>>
    /\ row_writers = <<>>
    /\ npairs_red = <<>>
    /\ nfree = <<>>

\* Calls within the contract: two clouds (autocorr 0), one cloud with itself
\* (autocorr 1), and one cloud with itself where the caller passes another
\* nonzero flag and a second cloud that the call leaves unread (autocorr 2).
Init ==
    \E g \in Geometries, ac \in {0, 1, 2}, nt \in 1..MaxThreads :
      \E e \in g.edges, garbage \in g.fill :
        \E d1 \in Clouds(g.sites, IF ac = 1 THEN MaxND ELSE MaxNDCross,
                         IF ac = 1 THEN MaxMult ELSE 1) :
          \E d2 \in IF ac = 1 THEN {d1} ELSE Clouds(g.sites, MaxNDCross, 1) :
            Entry(d1, d2, g, e, ac, nt, FALSE, garbage)

Spec == Init /\ [][Next]_vars

\* Calls with clouds of many identical points, so that a bin's number of
\* pairs reaches 2^31 (46341^2) and 2^32 (65536^2).
WideGeometry ==
    [bbox |-> Box(-1, 3, -1, 3, 0, 1), rpmax |-> 2,
     sites |-> << <<0, 0, 0>>, <<1, 0, 0>> >>,
     edges |-> { <<0, 2>>, <<0, 1, 2>> }]

WideClouds ==
    LET g == WideGeometry
    IN { SelectSeq(<< <<0, 0, 0, m1>>, <<1, 0, 0, m2>> >>, LAMBDA r : r[4] > 0) :
           <<m1, m2>> \in ({0, 1, 46341, 65536} \X {0, 1, 46341, 65536})
                            \ {<<0, 0>>} }

InitWide ==
    \E ac \in {0, 1}, nt \in 1..MaxThreads, e \in WideGeometry.edges :
      \E d1 \in WideClouds :
        \E d2 \in IF ac = 1 THEN {d1} ELSE WideClouds :
          Entry(d1, d2, WideGeometry, e, ac, nt, FALSE, 7)

SpecWide == InitWide /\ [][Next]_vars

\* Calls whose bin edges break the contract: not increasing, or fewer than
\* two edges.  (nrpbin = 0 is left out: a zero-length npairs[] and the read
\* of rupp_sqr[-1] are undefined.)
BadGeometry ==
    [bbox |-> Box(-1, 3, -1, 3, 0, 1), rpmax |-> 2,
     sites |-> << <<0, 0, 0>>, <<1, 0, 0>>, <<1, 1, 1>> >>,
     edges |-> { <<2, 1>>, <<0, 2, 1>>, <<2>> }]

InitBadBins ==
    \E ac \in {0, 1}, nt \in 1..MaxThreads, e \in BadGeometry.edges,
       garbage \in {0, 7} :
      \E d1 \in Clouds(BadGeometry.sites, IF ac = 1 THEN MaxND ELSE MaxNDCross,
                       IF ac = 1 THEN MaxMult ELSE 1) :
        \E d2 \in IF ac = 1 THEN {d1}
                  ELSE Clouds(BadGeometry.sites, MaxNDCross, 1) :
          Entry(d1, d2, BadGeometry, e, ac, nt, FALSE, garbage)

SpecBadBins == InitBadBins /\ [][Next]_vars

\* Calls of the USE_AVX build, with cells of more than NVEC points.
AVXGeometry ==
    [bbox |-> Box(0, 7, 0, 2, 0, 1), rpmax |-> 2,
     sites |-> << <<0, 0, 0>>, <<1, 0, 0>>, <<2, 0, 0>> >>,
     edges |-> { <<0, 1, 2>>, <<1, 2>>, <<0, 2>> }]

InitAVX ==
    \E ac \in {0, 1}, nt \in 1..MaxThreads, e \in AVXGeometry.edges :
      \E d2 \in Clouds(AVXGeometry.sites, MaxNDAVX, MaxMultAVX) :
        \E d1 \in IF ac = 1 THEN {d2} ELSE Clouds(AVXGeometry.sites, 1, 1) :
          Entry(d1, d2, AVXGeometry, e, ac, nt, TRUE, 7)

SpecAVX == InitAVX /\ [][Next]_vars

----------------------------------------------------------------------------
\* What the properties are stated with.

\* The cloud behind lattice2: D2 when autocorr is 0, D1 itself for any other
\* value of autocorr (lines 66-75).
Second == IF autocorr = 0 THEN D2 ELSE D1

InBox(p) ==
    /\ bbox.xmin <= p[1] /\ p[1] <= bbox.xmax
    /\ bbox.ymin <= p[2] /\ p[2] <= bbox.ymax
    /\ bbox.zmin <= p[3] /\ p[3] <= bbox.zmax

\* The preconditions of the call.
Preconditions ==
    /\ nrpbin >= 2
    /\ rupp[0] >= 0
    /\ \A i \in 1..(nrpbin - 1) : rupp[i - 1] < rupp[i]
    /\ rupp[nrpbin - 1] <= rpmax
    /\ \A i \in 1..Len(D1) : InBox(D1[i])
    /\ \A i \in 1..Len(Second) : InBox(Second[i])

Returned == pc = "done"

\* r2 lies in bin k: rupp[k-1]^2 <= r2 < rupp[k]^2.
InBin(r2, k) == rupp[k - 1] * rupp[k - 1] <= r2 /\ r2 < rupp[k] * rupp[k]

RunPairs == (1..Len(D1)) \X (1..Len(Second))

\* The ordered pairs (p, q) of D1 x Second with distance in bin k, counted
\* one by one over the points (a run of m points is m points).
OrderedPairs(k) ==
    SumFn([ij \in RunPairs |->
             IF InBin(Dist2(D1[ij[1]], Second[ij[2]]), k)
             THEN D1[ij[1]][4] * Second[ij[2]][4] ELSE 0], RunPairs)

\* Under autocorr: the ordered pairs of two different points in bin k.
DistinctOrdered(k) ==
    SumFn([ij \in RunPairs |->
             IF InBin(Dist2(D1[ij[1]], D1[ij[2]]), k)
             THEN IF ij[1] = ij[2] THEN D1[ij[1]][4] * (D1[ij[1]][4] - 1)
                  ELSE D1[ij[1]][4] * D1[ij[2]][4]
             ELSE 0], RunPairs)

\* Under autocorr: the unordered pairs of two different points in bin k.
Unordered(k) ==
    SumFn([ij \in RunPairs |->
             IF InBin(Dist2(D1[ij[1]], D1[ij[2]]), k)
             THEN IF ij[1] = ij[2]
                  THEN (D1[ij[1]][4] * (D1[ij[1]][4] - 1)) \div 2
                  ELSE IF ij[1] < ij[2] THEN D1[ij[1]][4] * D1[ij[2]][4]
                  ELSE 0
             ELSE 0], RunPairs)

RECURSIVE WSum(_, _)
WSum(f, S) ==
    IF S = {} THEN <<0, 0>>
    ELSE LET x == CHOOSE y \in S : TRUE IN WAdd(f[x], WSum(f, S \ {x}))

\* The ordered pairs of D1 x Second in bin k, as a wide number.
TrueCountWide(k) ==
    WSum([ij \in RunPairs |->
            IF InBin(Dist2(D1[ij[1]], Second[ij[2]]), k)
            THEN WMul(D1[ij[1]][4], Second[ij[2]][4]) ELSE <<0, 0>>],
         RunPairs)

----------------------------------------------------------------------------
\* C1, for clouds whose numbers of pairs stay below 2^31: for inputs meeting
\* the preconditions, at return every bin k in 1..K-1 reports the number of
\* ordered pairs (p, q) of D1 x D2 with rupp[k-1]^2 <= r2 < rupp[k]^2, on the
\* lattice nx = max(1, floor(extent * bf / rpmax)) searched +-bf cells per
\* axis, for bf = 1 and bf = 2; under autocorr the self-pairs are among them,
\* in bin 1 exactly when rupp[0] = 0.
C1_OrderedPairCounts ==
    (Returned /\ Preconditions) =>
        /\ bin_refine_factor \in {1, 2}
        /\ nmesh = [x |-> NMesh(bbox.xmin, bbox.xmax, rpmax, bin_refine_factor),
                    y |-> NMesh(bbox.ymin, bbox.ymax, rpmax, bin_refine_factor),
                    z |-> NMesh(bbox.zmin, bbox.zmax, rpmax, bin_refine_factor)]
        /\ \A k \in 1..(nrpbin - 1) : paircounts[k] = OrderedPairs(k)
        /\ autocorr # 0 =>
             \A k \in 1..(nrpbin - 1) :
                paircounts[k] = DistinctOrdered(k)
                                + (IF k = 1 /\ rupp[0] = 0 THEN NPoints(D1)
                                   ELSE 0)

\* A returned autocorr call on the 3 x 1 x 1 lattice of bf = 1 with points in
\* the two end cells (never searched against each other), a pair across
\* neighbour cells in bin 2 and the three self-pairs in bin 1.
C1_Witness ==
    /\ Returned /\ Preconditions
    /\ autocorr = 1 /\ bin_refine_factor = 1 /\ nmesh.x = 3
    /\ D1 = << <<2, 0, 0, 1>>, <<3, 0, 0, 1>>, <<7, 2, 1, 1>> >>
    /\ lattices[1][0] # <<>> /\ lattices[1][2] # <<>>
    /\ nrpbin = 3 /\ rupp[0] = 0
    /\ paircounts[1] = 3 /\ paircounts[2] = 2

\* C1, as stated, for clouds of any size: for inputs meeting the
\* preconditions, at return every bin k in 1..K-1 reports the number of
\* ordered pairs (p, q) of D1 x D2 with rupp[k-1]^2 <= r2 < rupp[k]^2 (the
\* numbers held wide, so that they may pass 2^31).
C1_OrderedPairCountsAnySize ==
    (Returned /\ Preconditions) =>
        \A k \in 1..(nrpbin - 1) : UVal(paircounts[k]) = TrueCountWide(k)
                                   /\ paircounts[k] >= 0

\* A cross-correlation of 65536 points at one place with 65536 points at
\* another, at distance 1, has returned: bin 2 has 2^32 ordered pairs and
\* reports 0.
C1_WitnessWrapped ==
    /\ Returned /\ Preconditions /\ autocorr = 0
    /\ D1 = << <<0, 0, 0, 65536>> >> /\ D2 = << <<1, 0, 0, 65536>> >>
    /\ rupp = Arr(<<0, 1, 2>>)
    /\ TrueCountWide(2) = <<65536, 0>>
    /\ paircounts[2] = 0

----------------------------------------------------------------------------
\* The counters the kernel's update for the single pair (p, q) leaves,
\* starting from zero.
CountedIn(p, q) == PairUpdate(Zero(nrpbin), p, q, 1)

\* C2: bins are closed below and open above.  A pair at distance exactly
\* rupp[k], k in 1..K-2, is counted in bin k+1 and not in bin k; one at
\* exactly rupp[K-1] in no bin; one at exactly rupp[0] in bin 1; every pair
\* with rupp[0]^2 <= r2 < rupp[K-1]^2 is counted in exactly one bin, the
\* first from the top with r2 >= rupp[k-1]^2.
C2_ClosedBelowOpenAbove ==
    /\ (pc = "parallel" /\ Preconditions) =>
         \A ij \in RunPairs :
            LET r2 == Dist2(D1[ij[1]], Second[ij[2]])
                inc == CountedIn(D1[ij[1]], Second[ij[2]])
            IN /\ \A k \in 1..(nrpbin - 2) :
                     r2 = rupp[k] * rupp[k] => inc[k + 1] = 1 /\ inc[k] = 0
               /\ r2 = rupp[nrpbin - 1] * rupp[nrpbin - 1] => inc = Zero(nrpbin)
               /\ r2 = rupp[0] * rupp[0] => inc[1] = 1
               /\ \A k \in 1..(nrpbin - 1) : inc[k] = 1 <=> InBin(r2, k)
               /\ \A k \in 0..(nrpbin - 1) : inc[k] \in {0, 1}
               /\ inc[0] = 0
               /\ (rupp[0] * rupp[0] <= r2
                     /\ r2 < rupp[nrpbin - 1] * rupp[nrpbin - 1])
                    => Cardinality({k \in 1..(nrpbin - 1) : inc[k] = 1}) = 1
    /\ (Returned /\ Preconditions /\ autocorr = 0
          /\ NPoints(D1) = 1 /\ NPoints(D2) = 1) =>
         \A k \in 1..(nrpbin - 1) :
            paircounts[k] = IF InBin(Dist2(D1[1], D2[1]), k) THEN 1 ELSE 0

\* A returned call on one pair at distance exactly rupp[1]: bin 2 has it.
C2_Witness ==
    /\ Returned /\ Preconditions /\ autocorr = 0
    /\ NPoints(D1) = 1 /\ NPoints(D2) = 1
    /\ nrpbin = 3
    /\ Dist2(D1[1], D2[1]) = rupp[1] * rupp[1]
    /\ paircounts[1] = 0 /\ paircounts[2] = 1

----------------------------------------------------------------------------
\* The scenarios, in half units (coordinates and edges doubled).
ScenarioS2 ==
    /\ autocorr = 1
    /\ D1 = << <<0, 0, 0, 1>>, <<2, 0, 0, 1>>, <<6, 0, 0, 1>> >>
    /\ rupp = Arr(<<0, 3, 5, 8>>)

\* Two points at distance 1, in units.
TwoPointsAtOne ==
    /\ autocorr = 1
    /\ D1 = << <<0, 0, 0, 1>>, <<1, 0, 0, 1>> >>

ScenarioS1 == TwoPointsAtOne /\ rupp = Arr(<<0, 2>>)
ScenarioS3 == TwoPointsAtOne /\ rupp = Arr(<<0, 1, 2>>)

\* C4, as stated: under autocorr with rupp[0] = 0 every bin reports twice
\* the unordered pairs of distinct points in it and nothing else; S2 gives
\* 2, 0, 4, S1 gives 2, S3 gives 0, 2.
C4_TwiceUnorderedOnly ==
    (Returned /\ Preconditions /\ autocorr # 0 /\ rupp[0] = 0) =>
        /\ \A k \in 1..(nrpbin - 1) : paircounts[k] = 2 * Unordered(k)
        /\ ScenarioS2 => paircounts[1] = 2 /\ paircounts[2] = 0
                         /\ paircounts[3] = 4
        /\ ScenarioS1 => paircounts[1] = 2
        /\ ScenarioS3 => paircounts[1] = 0 /\ paircounts[2] = 2

\* C4, amended: under autocorr with rupp[0] = 0 every bin reports twice the
\* unordered pairs of distinct points in it, and bin 1 reports the N
\* self-pairs besides; S2 gives 5, 2, 2 (its pair at distance 2 lies in
\* [1.5, 2.5), bin 2), S1 gives 4, S3 gives 2, 2.
C4_TwiceUnorderedPlusSelf ==
    (Returned /\ Preconditions /\ autocorr # 0 /\ rupp[0] = 0) =>
        /\ \A k \in 1..(nrpbin - 1) :
              paircounts[k] = 2 * Unordered(k)
                              + (IF k = 1 THEN NPoints(D1) ELSE 0)
        /\ ScenarioS2 => paircounts[1] = 5 /\ paircounts[2] = 2
                         /\ paircounts[3] = 2
        /\ ScenarioS1 => paircounts[1] = 4
        /\ ScenarioS3 => paircounts[1] = 2 /\ paircounts[2] = 2

\* Scenario S2 has returned, with the three self-pairs in bin 1.
C4_Witness ==
    /\ Returned /\ Preconditions /\ ScenarioS2
    /\ paircounts[1] = 5 /\ paircounts[2] = 2 /\ paircounts[3] = 2

----------------------------------------------------------------------------
\* C5, as stated: at return slot 0 of the output is zero whatever the
\* caller's array held, and slots 1..K-1 hold the counts of bins 1..K-1.
C5_SlotZeroIsZero ==
    (Returned /\ Preconditions) =>
        /\ paircounts[0] = 0
        /\ \A k \in 1..(nrpbin - 1) : paircounts[k] = OrderedPairs(k)

\* A call has returned on an array that held 7 in slot 0, and slot 0 still
\* holds it.
C5_Witness ==
    /\ Returned /\ Preconditions
    /\ paircounts_in[0] = 7 /\ paircounts[0] = 7
    /\ \A k \in 1..(nrpbin - 1) : paircounts[k] = OrderedPairs(k)

----------------------------------------------------------------------------
\* The call on one thread: numthreads = 1, so bin_refine_factor = 2, and the
\* single thread takes the cells in order.
SerialGrid ==
    Grid(BinRefineFactor(1),
         [x |-> NMesh(bbox.xmin, bbox.xmax, rpmax, BinRefineFactor(1)),
          y |-> NMesh(bbox.ymin, bbox.ymax, rpmax, BinRefineFactor(1)),
          z |-> NMesh(bbox.zmin, bbox.zmax, rpmax, BinRefineFactor(1))],
         gridlink_nopbc(D1, bbox, rpmax, BinRefineFactor(1)).cells,
         gridlink_nopbc(Second, bbox, rpmax, BinRefineFactor(1)).cells)

RECURSIVE CellsFrom(_, _, _, _)
CellsFrom(np, G, icell, avx) ==
    IF ~Computed(np) \/ icell >= G.nx * G.ny * G.nz THEN np
    ELSE CellsFrom(CellIteration(np, G, icell, avx), G, icell + 1, avx)

\* (The grid is bound to G as a value, built once.)
SerialCounts ==
    CHOOSE np \in {CellsFrom(Zero(nrpbin), G, 0, use_avx) : G \in {SerialGrid}} :
        TRUE

\* What the cells thread t has taken add up to, in the order it took them.
RECURSIVE Contribution(_, _, _)
Contribution(np, t, icell) ==
    IF ~Computed(np) \/ icell >= next_icell THEN np
    ELSE Contribution(IF visits[icell] = <<t>>
                      THEN CellIteration(np, TheGrid, icell, use_avx)
                      ELSE np, t, icell + 1)

InRegionOrLater == pc \in {"count", "report", "cleanup", "done"}
PastRegion == pc \in {"report", "cleanup", "done"}

\* C3: for a fixed input the reported counts do not depend on numthreads
\* (bin_refine_factor 2 on one thread, 1 on more), on the assignment of
\* cells to threads or on the interleaving; every cell of [0, nx*ny*nz) is
\* processed by exactly one thread exactly once and the reduction sums every
\* thread's contribution exactly once.
C3_ThreadIndependent ==
    /\ InRegionOrLater =>
         \A c \in 0..(totncells - 1) :
            /\ Len(visits[c]) = IF c < next_icell THEN 1 ELSE 0
            /\ \A n \in 1..Len(visits[c]) : visits[c][n] \in 0..(nteam - 1)
    /\ PastRegion =>
         /\ next_icell = totncells
         /\ \A k \in 0..(nrpbin - 1) :
               npairs_red[k] = SumFn([t \in 0..(nteam - 1) |-> all_npairs[t][k]],
                                     0..(nteam - 1))
    /\ Returned =>
         /\ \A t \in 0..(nteam - 1) :
               all_npairs[t] = Contribution(Zero(nrpbin), t, 0)
         /\ \A k \in 1..(nrpbin - 1) : paircounts[k] = npairs_red[k]
    \* The one-thread call on the input and every call on it report the
    \* same numbers, the input's numbers of pairs.
    /\ (pc = "parallel" /\ Preconditions) =>
         \A k \in 1..(nrpbin - 1) : SerialCounts[k] = OrderedPairs(k)
    /\ (Returned /\ Preconditions) =>
         \A k \in 1..(nrpbin - 1) : paircounts[k] = OrderedPairs(k)

\* A call on two threads has returned; each thread took cells that added
\* pairs, and the report is the one-thread report.
C3_Witness ==
    /\ Returned /\ Preconditions
    /\ numthreads = 2 /\ nteam = 2
    /\ all_npairs[0] # Zero(nrpbin) /\ all_npairs[1] # Zero(nrpbin)
    /\ \E c \in 0..(totncells - 1) : visits[c] = <<0>>
    /\ \E c \in 0..(totncells - 1) : visits[c] = <<1>>
    /\ npairs_red = SerialCounts
    /\ \A k \in 1..(nrpbin - 1) : paircounts[k] = npairs_red[k]

----------------------------------------------------------------------------
\* What holds of the shared locations in every state.
C9_Phases ==
    /\ InRegionOrLater =>
         /\ \A r \in 0..(numthreads - 1) : row_writers[r] \subseteq {r}
         /\ \A t \in 0..(nteam - 1) :
               /\ tpc[t] = "loop" =>
                    row_writers[t] = {} /\ all_npairs[t] = Zero(nrpbin)
               /\ tpc[t] = "exit" =>
                    /\ row_writers[t] = {t}
                    /\ all_npairs[t] = npairs[t]
                    /\ next_icell = totncells
         /\ \A r \in nteam..(numthreads - 1) :
               row_writers[r] = {} /\ all_npairs[r] = Zero(nrpbin)
    /\ PastRegion => RegionClosed /\ next_icell = totncells
    /\ ~PastRegion => npairs_red = <<>>
    /\ pc \notin {"cleanup", "done"} => paircounts = paircounts_in

\* What a step may write.
C9_Writes ==
    /\ pc = "count" =>
         /\ \A t \in 0..(nteam - 1) :
               npairs'[t] # npairs[t] =>
                   tpc[t] = "loop" /\ visits'[next_icell] = <<t>>
         /\ \A r \in 0..(numthreads - 1) :
               all_npairs'[r] # all_npairs[r] =>
                   r < nteam /\ tpc[r] = "loop" /\ tpc'[r] = "exit"
                   /\ all_npairs'[r] = npairs[r]
    /\ pc # "count" => all_npairs' = all_npairs \/ pc = "build"
    /\ pc # "build" => UNCHANGED <<lattices, lattice2, rupp_sqr, nmesh, inputs>>
    /\ npairs_red' # npairs_red => RegionClosed /\ pc = "count"
    /\ paircounts' # paircounts => pc = "report"

\* C9: in the parallel region each thread accumulates into its private
\* npairs only and copies it into its own row all_npairs[tid] only; the
\* lattices and bin tables are only read; the reduction reads the rows after
\* every thread has finished its cells and written its row, and the report
\* follows the reduction.
C9_NoSharedWrites == []C9_Phases /\ [][C9_Writes]_vars

\* Two threads in the region with pairs in their private counters; thread 0
\* has copied its counters to row 0 while thread 1 has not yet.
C9_Witness ==
    /\ pc = "count" /\ nteam = 2
    /\ tpc[0] = "exit" /\ tpc[1] = "loop"
    /\ npairs[0] # Zero(nrpbin) /\ npairs[1] # Zero(nrpbin)
    /\ npairs[0] # npairs[1]
    /\ all_npairs[0] = npairs[0] /\ all_npairs[1] = Zero(nrpbin)

----------------------------------------------------------------------------
\* The heap objects of a call that got past the build.
Allocated ==
    LatticeObjects(1, totncells)
    \cup (IF autocorr = 0 THEN LatticeObjects(2, totncells) ELSE {})
    \cup {<<"all_npairs">>}

\* C10: on a successful call every per-cell buffer and every lattice array
\* is released exactly once before return and never used after release;
\* under autocorr lattice2 is lattice1 and only lattice1's objects are
\* freed; under cross-correlation both lattices' objects are freed once each;
\* the per-thread matrix is freed once; nothing stays allocated at return.
C10_ReleasedOnce ==
    /\ pc \notin {"build", "aborted"} =>
         /\ DOMAIN nfree = Allocated
         /\ lattice2 = IF autocorr = 0 THEN 2 ELSE 1
         /\ DOMAIN lattices = IF autocorr = 0 THEN {1, 2} ELSE {1}
    /\ pc \in {"parallel", "count", "report", "cleanup"} =>
         \A o \in DOMAIN nfree : nfree[o] = 0
    /\ Returned => \A o \in DOMAIN nfree : nfree[o] = 1

\* A call with autocorr 2 and a second cloud other than the first has
\* returned on a lattice of several cells, lattice2 being lattice1 (the
\* counts are those of D1 with itself), with every object freed once.
C10_Witness ==
    /\ Returned /\ Preconditions /\ autocorr = 2 /\ D2 # D1
    /\ lattice2 = 1 /\ totncells > 1
    /\ \A k \in 1..(nrpbin - 1) : paircounts[k] = OrderedPairs(k)
    /\ <<"cell", 1, totncells - 1, "z">> \in DOMAIN nfree
    /\ \A o \in Allocated : nfree[o] = 1

----------------------------------------------------------------------------
\* The starts j of the full vectors of a cell of n points (line 233).
VectorStarts(n) == {j \in 0..(n - NVEC) : j % NVEC = 0}

\* The lanes of the vector at j whose pair with p lies in bin k.
LanesInBin(p, pts, j, k) ==
    Cardinality({l \in Lanes : InBin(Dist2(p, pts[j + l + 1]), k)})

\* Counters that are not zero, to start a kernel from.
Ramp == [k \in 0..(nrpbin - 1) |-> k + 1]

\* C6: for every pair of cells, every number of points in them and every
\* increasing bin edges, the AVX form of the kernel (full vectors of NVEC
\* points with the masked descending scan and early exit, then the scalar
\* remainder) adds to npairs[k] exactly what the scalar blocked double loop
\* adds, for every k in 1..K-1; lanes the range mask rejects add to no bin.
C6_AVXMatchesScalar ==
    /\ (pc = "parallel" /\ Preconditions) =>
         \A c1 \in DOMAIN lattices[1], c2 \in DOMAIN lattices[lattice2] :
            /\ KernelAVX(Zero(nrpbin), lattices[1][c1], lattices[lattice2][c2])
                 = KernelScalar(Zero(nrpbin), lattices[1][c1],
                                lattices[lattice2][c2])
            /\ KernelAVX(Ramp, lattices[1][c1], lattices[lattice2][c2])
                 = KernelScalar(Ramp, lattices[1][c1], lattices[lattice2][c2])
            /\ \A i \in 1..Len(lattices[1][c1]) :
                  \A j \in VectorStarts(NPoints(lattices[lattice2][c2])) :
                     AVXGroup(Zero(nrpbin), lattices[1][c1][i],
                              Expand(lattices[lattice2][c2]), j)
                       = [k \in 0..(nrpbin - 1) |->
                            IF k = 0 THEN 0
                            ELSE LanesInBin(lattices[1][c1][i],
                                            Expand(lattices[lattice2][c2]),
                                            j, k)]
    /\ (Returned /\ Preconditions /\ use_avx) =>
         npairs_red = CellsFrom(Zero(nrpbin), TheGrid, 0, FALSE)

\* A call of the AVX build has returned on a cell of six points at three
\* sites, with bins [1, 2): its vectors mix lanes below rmin (r2 = 0), lanes
\* in the bin (r2 = 1) and lanes at rmax (r2 = 4), and two points are left
\* to the remainder loop.
C6_Witness ==
    /\ Returned /\ Preconditions /\ use_avx
    /\ autocorr = 1 /\ bin_refine_factor = 1
    /\ rupp = Arr(<<1, 2>>)
    /\ D1 = << <<0, 0, 0, 2>>, <<1, 0, 0, 2>>, <<2, 0, 0, 2>> >>
    /\ lattices[1][0] = D1
    /\ NPoints(lattices[1][0]) > NVEC /\ NPoints(lattices[1][0]) % NVEC # 0
    /\ paircounts[1] = 16
    /\ npairs_red = CellsFrom(Zero(nrpbin), TheGrid, 0, FALSE)

----------------------------------------------------------------------------
\* Bin edges the contract rejects: fewer than two, or decreasing somewhere.
InvalidBins ==
    \/ nrpbin < 2
    \/ \E i \in 1..(nrpbin - 1) : rupp[i - 1] > rupp[i]

\* C7, as stated: a call with invalid bins fails cleanly; no counting is
\* performed, no output is written, it does not return as a successful call
\* does, and what it allocated is released.
C7_InvalidBinsFailClean ==
    InvalidBins =>
        /\ pc \in {"build", "aborted"}
        /\ paircounts = paircounts_in
        /\ pc = "aborted" => \A o \in DOMAIN nfree : nfree[o] = 1

\* A call with edges 0, 2, 1 has run to its normal return: it counted the
\* self-pairs of its points into bin 1 and wrote the output.
C7_Witness ==
    /\ InvalidBins /\ Returned
    /\ rupp = Arr(<<0, 2, 1>>) /\ autocorr = 1
    /\ paircounts_in[1] = 7
    /\ paircounts[1] = NPoints(D1) /\ paircounts[2] = 0

----------------------------------------------------------------------------
\* C8, as stated: every bin's report is its true number of pairs, with no
\* wrap and no change of sign when the number reaches 2^31 or 2^32.
C8_NoWrap ==
    (Returned /\ Preconditions) =>
        \A k \in 1..(nrpbin - 1) :
           /\ paircounts[k] >= 0
           /\ Wide(paircounts[k]) = TrueCountWide(k)

\* What the call reports instead: the low 32 bits of the true number, read
\* as an int.
C8_Low32Bits ==
    (Returned /\ Preconditions) =>
        \A k \in 1..(nrpbin - 1) :
           /\ UVal(paircounts[k])[2] = TrueCountWide(k)[2]
           /\ UVal(paircounts[k])[1] = TrueCountWide(k)[1] % 65536

\* An autocorr call on 65536 points at one place has returned: bin 1 has
\* 2^32 pairs and reports 0.
C8_Witness ==
    /\ Returned /\ Preconditions /\ autocorr = 1
    /\ D1 = << <<0, 0, 0, 65536>> >>
    /\ TrueCountWide(1) = <<65536, 0>>
    /\ paircounts[1] = 0

\* An autocorr call on 46341 points at one place has returned: bin 1 has
\* 2147488281 pairs and reports a negative number.
C8_WitnessNegative ==
    /\ Returned /\ Preconditions /\ autocorr = 1
    /\ D1 = << <<0, 0, 0, 46341>> >>
    /\ TrueCountWide(1) = <<32768, 4633>>
    /\ paircounts[1] = -2147479015

====
